---- MODULE Spec2Model ----
(***************************************************************************)
(* Model of import.py (wordle-infinite): main(language, keyboard, path)    *)
(* loads a keyboard layout, scans a word list line by line into five       *)
(* length buckets, and dumps each bucket to {language}/length{N}.json.     *)
(*                                                                         *)
(* Characters are one-character strings, words and lines are sequences of  *)
(* characters, a text file is a sequence of raw lines (newline included).  *)
(***************************************************************************)
EXTENDS Integers, Sequences, FiniteSets, TLC

\* ------------------------------------------------------------------ bounds
\* Largest number of lines of the word-list file.
MaxLines == 2
\* Longest raw word of the wide word pool (one past the longest bucket).
WideMaxLen == 9

\* ------------------------------------------------------- program constants
\* if len(line) < 4 or len(line) > 8
MinLen == 4
MaxLen == 8

\* faulty variant of BucketKeys: the first two keys written in the wrong order
BucketKeysSwapped == <<5, 4, 6, 7, 8>>

\* storage = {4: [], 5: [], 6: [], 7: [], 8: []}: the keys in insertion order,
\* which is the order "for length in storage" visits them.
BucketKeys == <<4, 5, 6, 7, 8>>

Range(s) == {s[i] : i \in 1..Len(s)}

StorageInit == [n \in Range(BucketKeys) |-> <<>>]

\* ------------------------------------------------------------ pure helpers
\* str.strip(): leading and trailing whitespace removed.
IsSpace(c) == c \in {" ", "\t", "\n", "\r", "\f"}

RECURSIVE LStrip(_)
LStrip(s) == IF s = <<>> THEN s
             ELSE IF IsSpace(Head(s)) THEN LStrip(Tail(s)) ELSE s

RECURSIVE RStrip(_)
RStrip(s) == IF s = <<>> THEN s
             ELSE IF IsSpace(s[Len(s)]) THEN RStrip(SubSeq(s, 1, Len(s) - 1)) ELSE s

\* faulty variant of Strip: the line is not stripped
StripNone(s) == s
Strip(s) == RStrip(LStrip(s))

\* [item for sublist in json.load(infile) for item in sublist
\*       if item not in ["\n", "\t"]]
RECURSIVE FlattenRow(_)
FlattenRow(row) == IF row = <<>> THEN <<>>
                   ELSE (IF Head(row) \in {"\n", "\t"} THEN <<>> ELSE <<Head(row)>>)
                        \o FlattenRow(Tail(row))

RECURSIVE Flatten(_)
Flatten(rows) == IF rows = <<>> THEN <<>>
                 ELSE FlattenRow(Head(rows)) \o Flatten(Tail(rows))

\* char in valid_chars  (valid_chars is a list)
InList(c, lst) == \E i \in 1..Len(lst) : lst[i] = c

\* len(line) < 4 or len(line) > 8
BadLength(line) == Len(line) < MinLen \/ Len(line) > MaxLen

\* faulty variant of HasInvalid: the character check is left out
HasInvalidNever(line, valid) == FALSE

\* not all(char in valid_chars for char in line)
HasInvalid(line, valid) == ~(\A i \in 1..Len(line) : InList(line[i], valid))

\* faulty variant of IntHalf: the half is rounded up
IntHalfRoundUp(n) == (n + 1) \div 2

\* int(len(line) / 2): true division, then truncation toward zero
IntHalf(n) == n \div 2

\* len(set(line)) <= int(len(line) / 2)
TooFewUnique(line) == Cardinality(Range(line)) <= IntHalf(Len(line))

\* json.dump(list_of_str, outfile): the text written, one character per element.
\* json.dumps of a str escapes the quote and the backslash.
EscapeChar(c) == IF c = "\"" THEN <<"\\", "\"">>
                 ELSE IF c = "\\" THEN <<"\\", "\\">>
                 ELSE <<c>>

RECURSIVE EscapeStr(_)
EscapeStr(w) == IF w = <<>> THEN <<>> ELSE EscapeChar(Head(w)) \o EscapeStr(Tail(w))

JsonStr(w) == <<"\"">> \o EscapeStr(w) \o <<"\"">>

RECURSIVE JsonItems(_)
JsonItems(ws) == IF ws = <<>> THEN <<>>
                 ELSE IF Len(ws) = 1 THEN JsonStr(ws[1])
                 ELSE JsonStr(ws[1]) \o <<",", " ">> \o JsonItems(Tail(ws))

\* faulty variant of JsonDump: only the first word is dumped
JsonDumpFirstOnly(ws) == <<"[">> \o (IF ws = <<>> THEN <<>> ELSE JsonStr(ws[1])) \o <<"]">>
JsonDump(ws) == <<"[">> \o JsonItems(ws) \o <<"]">>

\* ------------------------------------------------------------------ inputs
\* {language}/{keyboard}.json: rows of keys.
LayoutA == << <<"a", "b", "c">>, <<"d", "e", "r", "\n">> >>
LayoutB == << <<"a", "b", "\t">>, <<"c", "d", "v">> >>
Layouts == {LayoutA, LayoutB}

\* Raw lines of the word list, as "for line in infile" yields them.
LinePool ==
    { <<"h", "i", "\n">>,
      <<"a", "b", "b", "a", "\n">>,
      <<"a", "b", "c", "a", "\n">>,
      <<"c", "a", "v", "e", "d", "\n">>,
      <<"c", "a", "b", "b", "e", "d", "\n">>,
      <<" ", "a", "b", "c", "d", "a", " ", "\n">>,
      <<"a", "b", "\t", "c", "d", "\n">>,
      <<"d", "e", "a", "d", "b", "e", "a", "r">>,
      <<"v", "v", "v", "v", "\n">>,
      <<"a", "b", "c", "d", "a", "b", "c", "d", "a", "\n">> }

RECURSIVE SeqsUpTo(_, _)
SeqsUpTo(S, n) == IF n = 0 THEN {<<>>}
                  ELSE LET shorter == SeqsUpTo(S, n - 1)
                       IN  shorter \cup {Append(s, x) : s \in shorter, x \in S}

WordFiles == SeqsUpTo(LinePool, MaxLines)

\* The wide pool: for every length and every number of distinct letters a word
\* over the letters of LayoutA, and the same word with one foreign letter.
Alphabet == Flatten(LayoutA)
PatternWord(len, d) == [i \in 1..len |-> Alphabet[((i - 1) % d) + 1]]
ForeignWord(len, d) == [i \in 1..len |-> IF i = 1 THEN "z" ELSE Alphabet[((i - 1) % d) + 1]]
WidePool ==
    UNION { {PatternWord(len, d) \o <<"\n">>, ForeignWord(len, d) \o <<"\n">>} :
            len \in (MinLen - 1)..WideMaxLen, d \in 1..Len(Alphabet) }

\* Output files {language}/length{N}.json before a run.
Absent == [exists |-> FALSE, data |-> <<>>]
Stale == [exists |-> TRUE, data |-> <<"[", "\"", "o", "l", "d", "\"", "]">>]
NoFiles == [n \in Range(BucketKeys) |-> Absent]
StaleFiles == [n \in Range(BucketKeys) |-> Stale]

\* File handles.
LayoutH == <<"layout", 0>>
WordsH == <<"words", 0>>
OutH(n) == <<"out", n>>

NoFault == <<"none", 0>>

\* ------------------------------------------------------------------- state
VARIABLES
    layout,       \* content of {language}/{keyboard}.json
    wordfile,     \* content of the word list at path: its raw lines
    env,          \* "healthy": every open/read succeeds; "faulty": any may raise
    prior,        \* the output files as they were when the run started
    files,        \* the output files
    run,          \* 1 or 2: which invocation of main this is
    firstOut,     \* the output files as the first run left them
    pc,           \* position in main
    storage,      \* the bucket map
    valid_chars,  \* the flattened layout
    pos,          \* number of word-list lines consumed
    idx,          \* position of "for length in storage" in the key order
    handles,      \* open file handles
    opened,       \* handles opened so far in this run, in order
    written,      \* bucket lengths dumped so far in this run, in order
    stdout,       \* lines printed so far in this run
    fault,        \* the exception that ended the run, if any
    access        \* what the last step did with storage

vars == <<layout, wordfile, env, prior, files, run, firstOut, pc, storage,
          valid_chars, pos, idx, handles, opened, written, stdout, fault, access>>

inputs == <<layout, wordfile, env>>

\* main is entered: storage is the literal of lines 9-15, nothing else exists yet.
Fresh ==
    /\ pc = "openLayout"
    /\ storage = StorageInit
    /\ valid_chars = <<>>
    /\ pos = 0
    /\ idx = 1
    /\ handles = {}
    /\ opened = <<>>
    /\ written = <<>>
    /\ stdout = <<>>
    /\ fault = NoFault
    /\ access = "none"

InitWith(wordfiles, layouts) ==
    /\ layout \in layouts
    /\ wordfile \in wordfiles
    /\ env \in {"healthy", "faulty"}
    /\ prior \in {NoFiles, StaleFiles}
    /\ files = prior
    /\ run = 1
    /\ firstOut = NoFiles
    /\ Fresh

Init == InitWith(WordFiles, Layouts)

InitWide == InitWith({<<w>> : w \in WidePool}, {LayoutA})

\* An unhandled exception leaves main; every "with" block closes its file.
Raise(kind, at) ==
    /\ pc' = "aborted"
    /\ fault' = <<kind, at>>
    /\ handles' = {}

\* ------------------------------------------------------------ layout stage
\* with open(f"{language}/{keyboard}.json", "rt") as infile:
OpenLayout ==
    /\ pc = "openLayout"
    /\ handles' = handles \cup {LayoutH}
    /\ opened' = Append(opened, LayoutH)
    /\ pc' = "loadLayout"
    /\ access' = "none"
    /\ UNCHANGED <<inputs, prior, files, run, firstOut, storage, valid_chars,
                   pos, idx, written, stdout, fault>>

\* the layout file does not exist
OpenLayoutFails ==
    /\ pc = "openLayout"
    /\ env = "faulty"
    /\ Raise("layoutOpen", 0)
    /\ access' = "none"
    /\ UNCHANGED <<inputs, prior, files, run, firstOut, storage, valid_chars,
                   pos, idx, opened, written, stdout>>

\* valid_chars = [... json.load(infile) ...], then the with block closes infile
LoadLayout ==
    /\ pc = "loadLayout"
    /\ valid_chars' = Flatten(layout)
    /\ handles' = handles \ {LayoutH}
    /\ pc' = "openWords"
    /\ access' = "none"
    /\ UNCHANGED <<inputs, prior, files, run, firstOut, storage, pos, idx,
                   opened, written, stdout, fault>>

\* json.load raises: the layout file is not parseable
LoadLayoutFails ==
    /\ pc = "loadLayout"
    /\ env = "faulty"
    /\ Raise("layoutParse", 0)
    /\ access' = "none"
    /\ UNCHANGED <<inputs, prior, files, run, firstOut, storage, valid_chars,
                   pos, idx, opened, written, stdout>>

\* -------------------------------------------------------------- scan stage
\* with open(path, "rt") as infile:
OpenWords ==
    /\ pc = "openWords"
    /\ handles' = handles \cup {WordsH}
    /\ opened' = Append(opened, WordsH)
    /\ pc' = "scan"
    /\ access' = "none"
    /\ UNCHANGED <<inputs, prior, files, run, firstOut, storage, valid_chars,
                   pos, idx, written, stdout, fault>>

OpenWordsFails ==
    /\ pc = "openWords"
    /\ env = "faulty"
    /\ Raise("wordsOpen", 0)
    /\ access' = "none"
    /\ UNCHANGED <<inputs, prior, files, run, firstOut, storage, valid_chars,
                   pos, idx, opened, written, stdout>>

\* for line in infile: line = line.strip()
HasLine == pc = "scan" /\ pos < Len(wordfile)
CurLine == Strip(wordfile[pos + 1])

\* faulty variant of NextLine: break instead of continue
NextLineBreaks ==
    /\ pos' = pos + 1
    /\ pc' = "writer"
    /\ UNCHANGED <<inputs, prior, files, run, firstOut, valid_chars, idx,
                   handles, opened, written, fault>>

\* the loop goes on with the next line
NextLine ==
    /\ pos' = pos + 1
    /\ pc' = "scan"
    /\ UNCHANGED <<inputs, prior, files, run, firstOut, valid_chars, idx,
                   handles, opened, written, fault>>

\* if len(line) < 4 or len(line) > 8: continue
ScanSkipLength ==
    /\ HasLine
    /\ BadLength(CurLine)
    /\ NextLine
    /\ access' = "none"
    /\ UNCHANGED <<storage, stdout>>

\* if not all(...): print(f"Skipping {line} for invalid chars"); continue
ScanInvalid ==
    /\ HasLine
    /\ ~BadLength(CurLine)
    /\ HasInvalid(CurLine, valid_chars)
    /\ stdout' = Append(stdout, <<"invalid chars", CurLine>>)
    /\ NextLine
    /\ access' = "none"
    /\ UNCHANGED storage

\* faulty variant of ScanNotUnique: the unique-letter check does not wait for the character check
ScanNotUniqueUnordered ==
    /\ HasLine
    /\ ~BadLength(CurLine)
    /\ TooFewUnique(CurLine)
    /\ stdout' = Append(stdout, <<"not enough unique letters", CurLine>>)
    /\ NextLine
    /\ access' = "none"
    /\ UNCHANGED storage

\* if len(set(line)) <= int(len(line) / 2):
\*     print(f"Skipping {line} for not enough unique letters"); continue
ScanNotUnique ==
    /\ HasLine
    /\ ~BadLength(CurLine)
    /\ ~HasInvalid(CurLine, valid_chars)
    /\ TooFewUnique(CurLine)
    /\ stdout' = Append(stdout, <<"not enough unique letters", CurLine>>)
    /\ NextLine
    /\ access' = "none"
    /\ UNCHANGED storage

\* storage[len(line)].append(line)
ScanAppend ==
    /\ HasLine
    /\ ~BadLength(CurLine)
    /\ ~HasInvalid(CurLine, valid_chars)
    /\ ~TooFewUnique(CurLine)
    /\ storage' = [storage EXCEPT ![Len(CurLine)] = Append(@, CurLine)]
    /\ NextLine
    /\ access' = "append"
    /\ UNCHANGED stdout

\* reading the next line raises (the file cannot be read or decoded)
ScanReadFails ==
    /\ HasLine
    /\ env = "faulty"
    /\ Raise("wordsRead", pos)
    /\ access' = "none"
    /\ UNCHANGED <<inputs, prior, files, run, firstOut, storage, valid_chars,
                   pos, idx, opened, written, stdout>>

\* faulty variant of ScanEOF: the word list is left open
ScanEOFLeak ==
    /\ pc = "scan"
    /\ pos = Len(wordfile)
    /\ pc' = "writer"
    /\ access' = "none"
    /\ UNCHANGED <<inputs, prior, files, run, firstOut, storage, valid_chars,
                   pos, idx, handles, opened, written, stdout, fault>>

\* the file is exhausted: the with block closes it and the writer loop starts
ScanEOF ==
    /\ pc = "scan"
    /\ pos = Len(wordfile)
    /\ handles' = handles \ {WordsH}
    /\ pc' = "writer"
    /\ access' = "none"
    /\ UNCHANGED <<inputs, prior, files, run, firstOut, storage, valid_chars,
                   pos, idx, opened, written, stdout, fault>>

\* ------------------------------------------------------------ writer stage
\* for length in storage:
HasBucket == pc = "writer" /\ idx <= Len(BucketKeys)
length == BucketKeys[idx]

\* faulty variant of WriterOpen: mode "a": the file is not truncated
WriterOpenAppend ==
    /\ HasBucket
    /\ handles' = handles \cup {OutH(length)}
    /\ opened' = Append(opened, OutH(length))
    /\ files' = [files EXCEPT ![length].exists = TRUE]
    /\ pc' = "summary"
    /\ access' = "iter"
    /\ UNCHANGED <<inputs, prior, run, firstOut, storage, valid_chars, pos, idx,
                   written, stdout, fault>>

\* with open(f"{language}/length{length}.json", "wt", ...) as outfile:
\* mode "w" creates the file or truncates it
WriterOpen ==
    /\ HasBucket
    /\ handles' = handles \cup {OutH(length)}
    /\ opened' = Append(opened, OutH(length))
    /\ files' = [files EXCEPT ![length] = [exists |-> TRUE, data |-> <<>>]]
    /\ pc' = "summary"
    /\ access' = "iter"
    /\ UNCHANGED <<inputs, prior, run, firstOut, storage, valid_chars, pos, idx,
                   written, stdout, fault>>

\* faulty variant of WriterOpenFails: the failure is swallowed and the loop goes on
WriterOpenFailsSkips ==
    /\ HasBucket
    /\ env = "faulty"
    /\ fault' = <<"outOpen", length>>
    /\ idx' = idx + 1
    /\ access' = "iter"
    /\ UNCHANGED <<inputs, prior, files, run, firstOut, pc, storage, valid_chars,
                   pos, handles, opened, written, stdout>>

\* the output path is not writable
WriterOpenFails ==
    /\ HasBucket
    /\ env = "faulty"
    /\ Raise("outOpen", length)
    /\ access' = "iter"
    /\ UNCHANGED <<inputs, prior, files, run, firstOut, storage, valid_chars,
                   pos, idx, opened, written, stdout>>

\* print(f"Writing {len(storage[length])} words of length {length}.")
WriterSummary ==
    /\ pc = "summary"
    /\ stdout' = Append(stdout, <<"Writing", Len(storage[length]), length>>)
    /\ pc' = "dump"
    /\ access' = "read"
    /\ UNCHANGED <<inputs, prior, files, run, firstOut, storage, valid_chars,
                   pos, idx, handles, opened, written, fault>>

\* json.dump(storage[length], outfile), then the with block closes outfile
WriterDump ==
    /\ pc = "dump"
    /\ files' = [files EXCEPT ![length].data = @ \o JsonDump(storage[length])]
    /\ written' = Append(written, length)
    /\ handles' = handles \ {OutH(length)}
    /\ idx' = idx + 1
    /\ pc' = "writer"
    /\ access' = "read"
    /\ UNCHANGED <<inputs, prior, run, firstOut, storage, valid_chars, pos,
                   opened, stdout, fault>>

\* the keys are exhausted: main returns
WriterFinish ==
    /\ pc = "writer"
    /\ idx > Len(BucketKeys)
    /\ pc' = "done"
    /\ access' = "iter"
    /\ UNCHANGED <<inputs, prior, files, run, firstOut, storage, valid_chars,
                   pos, idx, handles, opened, written, stdout, fault>>

\* ---------------------------------------------------------------- re-run
\* main is invoked a second time on the same layout and word list; between the
\* runs the output files are left alone or replaced by something else.
Rerun ==
    /\ pc = "done"
    /\ run = 1
    /\ run' = 2
    /\ firstOut' = files
    /\ files' \in {files, StaleFiles}
    /\ prior' = files'
    /\ pc' = "openLayout"
    /\ storage' = StorageInit
    /\ valid_chars' = <<>>
    /\ pos' = 0
    /\ idx' = 1
    /\ handles' = {}
    /\ opened' = <<>>
    /\ written' = <<>>
    /\ stdout' = <<>>
    /\ fault' = NoFault
    /\ access' = "none"
    /\ UNCHANGED inputs

Next ==
    \/ OpenLayout
    \/ OpenLayoutFails
    \/ LoadLayout
    \/ LoadLayoutFails
    \/ OpenWords
    \/ OpenWordsFails
    \/ ScanSkipLength
    \/ ScanInvalid
    \/ ScanNotUnique
    \/ ScanAppend
    \/ ScanReadFails
    \/ ScanEOF
    \/ WriterOpen
    \/ WriterOpenFails
    \/ WriterSummary
    \/ WriterDump
    \/ WriterFinish
    \/ Rerun

Spec == Init /\ [][Next]_vars

\* main is sequential code: whenever a step is possible, one is taken.
FairSpec == Spec /\ WF_vars(Next)

\* One-line word lists drawn from the wide pool.
SpecWide == InitWide /\ [][Next]_vars

\* =================================================================== claims
\* What the claims speak of, stated without the operators of the model.
Lengths == {4, 5, 6, 7, 8}

\* the valid-character set loaded from the layout file
ValidSet == UNION {{layout[r][k] : k \in 1..Len(layout[r])} : r \in 1..Len(layout)}
            \ {"\n", "\t"}

\* a raw line with its surrounding whitespace removed
Inner(s) == {i \in 1..Len(s) : s[i] \notin {" ", "\t", "\n", "\r", "\f"}}
Least(S) == CHOOSE x \in S : \A y \in S : x <= y
Greatest(S) == CHOOSE x \in S : \A y \in S : x >= y
Trimmed(s) == IF Inner(s) = {} THEN <<>> ELSE SubSeq(s, Least(Inner(s)), Greatest(Inner(s)))

Distinct(w) == Cardinality({w[i] : i \in 1..Len(w)})
AllValid(w) == \A i \in 1..Len(w) : w[i] \in ValidSet
InRange(w) == Len(w) >= 4 /\ Len(w) <= 8
Passes(w) == InRange(w) /\ AllValid(w) /\ Distinct(w) > Len(w) \div 2

\* the trimmed lines consumed so far
Seen == [i \in 1..pos |-> Trimmed(wordfile[i])]

\* the diagnostics printed so far (the summary lines left out)
IsDiag(e) == e[1] # "Writing"
Diags == SelectSeq(stdout, IsDiag)
IsSummary(e) == e[1] = "Writing"
Summaries == SelectSeq(stdout, IsSummary)

RECURSIVE SumLen(_, _)
SumLen(f, S) == IF S = {} THEN 0
                ELSE LET n == CHOOSE x \in S : TRUE IN Len(f[n]) + SumLen(f, S \ {n})
Stored == SumLen(storage, DOMAIN storage)

IsPrefix(s, t) == Len(s) <= Len(t) /\ s = SubSeq(t, 1, Len(s))

\* C1: at every point of the scan and at write time, every word of storage[N]
\* has N in 4..8, length N, only characters of the valid-character set, and
\* more than floor(N/2) distinct characters.
C1_BucketInvariant ==
    \A N \in DOMAIN storage : \A i \in 1..Len(storage[N]) :
        LET w == storage[N][i]
        IN  /\ N \in Lengths
            /\ Len(w) = N
            /\ AllValid(w)
            /\ Distinct(w) > Len(w) \div 2

C1_Witness ==
    /\ pc = "dump"
    /\ storage[4] # <<>>
    /\ storage[8] # <<>>

\* C2: after any prefix of the lines, and so when the scan ends, each bucket
\* storage[N] is exactly the subsequence of the trimmed lines of length N that
\* pass the checks, in input order, repeated lines kept.
PassesInto4(w) == Passes(w) /\ Len(w) = 4
PassesInto5(w) == Passes(w) /\ Len(w) = 5
PassesInto6(w) == Passes(w) /\ Len(w) = 6
PassesInto7(w) == Passes(w) /\ Len(w) = 7
PassesInto8(w) == Passes(w) /\ Len(w) = 8

ExpectedDiag(w) ==
    IF ~InRange(w) THEN <<>>
    ELSE IF ~AllValid(w) THEN << <<"invalid chars", w>> >>
    ELSE IF Distinct(w) <= Len(w) \div 2 THEN << <<"not enough unique letters", w>> >>
    ELSE <<>>

RECURSIVE ExpectedDiags(_)
ExpectedDiags(k) == IF k = 0 THEN <<>>
                    ELSE ExpectedDiags(k - 1) \o ExpectedDiag(Trimmed(wordfile[k]))

C3_Diagnostics == Diags = ExpectedDiags(pos)

C3_Witness ==
    /\ layout = LayoutA
    /\ pos = 2
    /\ wordfile[1] = <<"h", "i", "\n">>
    /\ wordfile[2] = <<"v", "v", "v", "v", "\n">>
    /\ stdout = << <<"invalid chars", <<"v", "v", "v", "v">>>> >>

\* C4 as claimed: every rejected line, whatever the reason, has printed a
\* diagnostic: the lines consumed are the stored ones and the diagnosed ones.
C4_EveryRejectionDiagnosed == Len(Diags) = pos - Stored

\* C4 as amended: a line rejected for an invalid character or for too few
\* unique letters prints one diagnostic, a line rejected for its length prints
\* none, and after any rejection the scan goes on with the next line.
C4_RejectionContinues ==
    [][ (pc = "scan" /\ pos' = pos + 1 /\ storage' = storage) =>
            /\ pc' = "scan"
            /\ fault' = NoFault
            /\ WordsH \in handles'
            /\ Len(stdout') = Len(stdout) + (IF InRange(Trimmed(wordfile[pos'])) THEN 1 ELSE 0)
      ]_vars

C4_Witness ==
    /\ pc = "scan"
    /\ pos = 2
    /\ Stored = 0
    /\ Len(stdout) = 1
    /\ ~InRange(Trimmed(wordfile[1]))

\* What a reader of an output file gets back: the strings of the JSON array,
\* or "malformed" when the text is no array of strings.
RECURSIVE ReadItems(_, _, _, _)
ReadItems(rest, cur, inStr, acc) ==
    IF rest = <<>> THEN (IF inStr THEN "malformed" ELSE acc)
    ELSE IF inStr
         THEN IF Head(rest) = "\"" THEN ReadItems(Tail(rest), <<>>, FALSE, Append(acc, cur))
              ELSE ReadItems(Tail(rest), Append(cur, Head(rest)), TRUE, acc)
         ELSE IF Head(rest) = "\"" THEN ReadItems(Tail(rest), <<>>, TRUE, acc)
              ELSE IF Head(rest) \in {",", " "} THEN ReadItems(Tail(rest), cur, FALSE, acc)
              ELSE "malformed"

ReadBack(f) ==
    IF ~f.exists \/ Len(f.data) < 2 THEN "malformed"
    ELSE IF f.data[1] # "[" \/ f.data[Len(f.data)] # "]" THEN "malformed"
    ELSE ReadItems(SubSeq(f.data, 2, Len(f.data) - 1), <<>>, FALSE, <<>>)

AllWritten ==
    /\ written = <<4, 5, 6, 7, 8>>
    /\ \A N \in Lengths :
        /\ files[N].exists
        /\ ReadBack(files[N]) = storage[N]
        /\ storage[N] = <<>> => files[N].data = <<"[", "]">>

\* C5: with a readable layout, a readable word list and writable output paths
\* a run of main terminates, and then all five files length4..length8 are
\* written, each holding its bucket's words, an empty bucket as [].
C5_TerminatesAllWritten ==
    (pc = "openLayout" /\ env = "healthy") ~> (pc = "done" /\ AllWritten)

C5_Witness ==
    /\ pc = "done"
    /\ env = "healthy"
    /\ wordfile = <<>>
    /\ prior = StaleFiles
    /\ \A N \in Lengths : files[N] = [exists |-> TRUE, data |-> <<"[", "]">>]

\* C6: a fatal failure ends the run where it occurs, nothing later runs and
\* nothing is retried: after a layout failure the word list is never opened
\* and no output file is touched; after a word-list failure no output file is
\* touched; after an output file fails to open no bucket of a greater length
\* is written.
OutputsOpened == {N \in Lengths : OutH(N) \in Range(opened)}

C6_FatalStops ==
    /\ (fault # NoFault) <=> (pc = "aborted")
    /\ pc = "aborted" => (~ENABLED Next /\ handles = {})
    /\ fault[1] \in {"layoutOpen", "layoutParse"} =>
        /\ WordsH \notin Range(opened)
        /\ OutputsOpened = {}
        /\ files = prior
    /\ fault[1] \in {"wordsOpen", "wordsRead"} =>
        /\ OutputsOpened = {}
        /\ written = <<>>
        /\ files = prior
    /\ fault[1] = "outOpen" =>
        \A M \in Lengths : M >= fault[2] =>
            /\ M \notin OutputsOpened
            /\ M \notin Range(written)
            /\ files[M] = prior[M]

C6_Witness ==
    /\ pc = "aborted"
    /\ fault = <<"outOpen", 6>>
    /\ written = <<4, 5>>
    /\ storage[8] # <<>>
    /\ files[8] = Stale

\* the bucket lengths of the summary lines printed so far, in order
SummaryLengths == [i \in 1..Len(Summaries) |-> Summaries[i][3]]

WriterOrderAndCounts ==
    /\ IsPrefix(SummaryLengths, <<4, 5, 6, 7, 8>>)
    /\ IsPrefix(written, <<4, 5, 6, 7, 8>>)
    /\ \A i \in 1..Len(Summaries) : Summaries[i][2] = Len(storage[Summaries[i][3]])
    /\ Range(written) \subseteq Range(SummaryLengths)

\* C7 as claimed: the buckets are handled in the order 4, 5, 6, 7, 8, each
\* summary line reports the size of its bucket, and it is printed before the
\* bucket's file is touched in any way, opening and truncation included.
C7_SummaryBeforeFileTouched ==
    /\ WriterOrderAndCounts
    /\ OutputsOpened \subseteq Range(SummaryLengths)

\* C7 as amended: the same order and counts; the summary line is printed
\* after the bucket's file has been opened and truncated, and before the
\* bucket is dumped into it.
C7_SummaryBeforeDump ==
    /\ WriterOrderAndCounts
    /\ Range(SummaryLengths) \subseteq OutputsOpened
    /\ pc = "summary" => (files[length] = [exists |-> TRUE, data |-> <<>>]
                          /\ length \notin Range(SummaryLengths))
    /\ pc = "dump" => (files[length].data = <<>> /\ length \in Range(SummaryLengths))

C7_Witness ==
    /\ pc = "dump"
    /\ prior = StaleFiles
    /\ length = 6
    /\ stdout[Len(stdout)] = <<"Writing", 1, 6>>
    /\ files[6].data = <<>>

\* C8: at most one file handle is open at any time; the files are opened in
\* the order layout, word list, outputs 4..8, each closed before the next is
\* opened, the word list fully consumed before any output is opened; the
\* bucket map is appended to only while the word list is open and read only
\* in the writer loop, its buckets only while an output file is open.
HandleOrder == <<LayoutH, WordsH, OutH(4), OutH(5), OutH(6), OutH(7), OutH(8)>>

C8_HandlesScoped ==
    /\ [](/\ Cardinality(handles) <= 1
          /\ IsPrefix(opened, HandleOrder)
          /\ handles \subseteq Range(opened)
          /\ OutputsOpened # {} => (pos = Len(wordfile) /\ WordsH \notin handles)
          /\ pc \in {"done", "aborted", "openWords", "writer"} => handles = {})
    /\ [][/\ Cardinality(handles') > Cardinality(handles) => handles = {}
          /\ (storage' # storage /\ run' = run) =>
                (WordsH \in handles /\ WordsH \in handles' /\ access' = "append")
          /\ access' = "append" => (WordsH \in handles /\ WordsH \in handles')
          /\ access' = "read" => (handles = {OutH(length)} /\ storage' = storage)
          /\ access' = "iter" => (pc = "writer" /\ handles = {} /\ storage' = storage)
         ]_vars

C8_Witness ==
    /\ pc = "summary"
    /\ handles = {OutH(5)}
    /\ opened = <<LayoutH, WordsH, OutH(4), OutH(5)>>
    /\ storage[5] # <<>>

\* C9: a second run of main on the same layout and the same word list leaves
\* every output file with the content the first run wrote, whatever the files
\* held before either run.
C9_RerunSameOutput == (run = 2 /\ pc = "done") => files = firstOut

C9_Witness ==
    /\ run = 2
    /\ pc = "done"
    /\ prior = StaleFiles
    /\ firstOut # prior
    /\ storage[4] # <<>>
    /\ files[4].data # <<"[", "]">>

\* C10: a word of length L in 4..8 made of valid characters is rejected by the
\* unique-letter check exactly when it has at most floor(L/2) distinct
\* characters; it is accepted from 3, 3, 4, 4, 5 distinct characters on for
\* L = 4, 5, 6, 7, 8.
MinDistinct == (4 :> 3) @@ (5 :> 3) @@ (6 :> 4) @@ (7 :> 4) @@ (8 :> 5)

C10_UniqueThreshold ==
    \A i \in 1..pos :
        LET w == Seen[i]
        IN  (InRange(w) /\ AllValid(w)) =>
              /\ (\E k \in 1..Len(storage[Len(w)]) : storage[Len(w)][k] = w)
                    <=> Distinct(w) >= MinDistinct[Len(w)]
              /\ (\E k \in 1..Len(stdout) : stdout[k] = <<"not enough unique letters", w>>)
                    <=> Distinct(w) <= Len(w) \div 2

C10_Witness ==
    /\ pos = 1
    /\ wordfile = << <<"a", "b", "c", "a", "b", "\n">> >>
    /\ storage[5] = << <<"a", "b", "c", "a", "b">> >>
    /\ stdout = <<>>

====
